---- MODULE Spec2Model ----
(***************************************************************************)
(* A model of the calendar aggregation scripts of outlook2github:          *)
(* merge_calendars.py and master_script.py (fetch / filter / merge),       *)
(* download_calendars.py and push_to_github.py (refresh / publish).        *)
(*                                                                         *)
(* Text is a sequence of one-character strings, so that Python's           *)
(* str.split, str.startswith and str.strip are computed on characters.     *)
(* A date is a count of days, a datetime a count of seconds of local wall  *)
(* time plus the stated UTC offset (aware) or no offset (naive).           *)
(***************************************************************************)
EXTENDS Integers, Sequences, FiniteSets, TLC

\* ------------------------------------------------------------------ bounds
\* Longest source list of a run.
MaxSources == 2
\* Most components read from the fetched feeds during one run.
MaxComponents == 3
\* Most components read during one refresh run.
MaxRefreshed == 2

\* Longest summary of the two candidate events of a fold.
MaxLen == 3

\* --------------------------------------------------------- program constants
MAX_DAYS == 2
DAY_SECONDS == 86400
\* week_ago = now - timedelta(days=7); one week of start_of_last_week
WEEK_DAYS == 7

\* ------------------------------------------------------------------- text
\* The literal separator ", " of the fold step.
Separator == <<",", " ">>

\* str.startswith(prefix)
StartsWith(s, p) ==
    /\ Len(p) <= Len(s)
    /\ SubSeq(s, 1, Len(p)) = p

\* str.split(", "), scanning left to right; cur is the part being read.
RECURSIVE SplitAcc(_, _)
SplitAcc(s, cur) ==
    IF s = <<>> THEN <<cur>>
    ELSE IF StartsWith(s, Separator)
         THEN <<cur>> \o SplitAcc(SubSeq(s, Len(Separator) + 1, Len(s)), <<>>)
         ELSE SplitAcc(Tail(s), Append(cur, Head(s)))

Split(s) == SplitAcc(s, <<>>)

\* str.strip(): leading and trailing blanks removed.
RECURSIVE LStrip(_)
LStrip(s) == IF s # <<>> /\ Head(s) = " " THEN LStrip(Tail(s)) ELSE s

RECURSIVE RStrip(_)
RStrip(s) ==
    IF s # <<>> /\ s[Len(s)] = " " THEN RStrip(SubSeq(s, 1, Len(s) - 1)) ELSE s

Strip(s) == RStrip(LStrip(s))

Range(f) == {f[i] : i \in DOMAIN f}

\* ------------------------------------------------------------ time values
None == [kind |-> "none", v |-> 0, off |-> 0]
Date(d) == [kind |-> "date", v |-> d, off |-> 0]
Naive(t) == [kind |-> "naive", v |-> t, off |-> 0]
Aware(t, o) == [kind |-> "aware", v |-> t, off |-> o]
\* A DURATION property that is absent.
NoDuration == -1

\* isinstance(x, datetime.datetime)
IsDateTime(x) == x.kind \in {"naive", "aware"}

\* date.isoformat() / datetime.isoformat(): the stated local value, and the
\* stated offset when there is one; a date has no time part.
StringifyDt(x) ==
    IF x.kind = "date" THEN <<"D", x.v>>
    ELSE IF x.kind = "naive" THEN <<"D", x.v \div DAY_SECONDS, "T", x.v % DAY_SECONDS>>
    ELSE <<"D", x.v \div DAY_SECONDS, "T", x.v % DAY_SECONDS, "Z", x.off>>

\* The instant of an aware datetime.
Instant(x) == x.v - x.off

\* b - a of two values of Python's datetime module raises TypeError unless
\* both are dates, both naive datetimes or both aware datetimes.
SubRaises(b, a) == b.kind # a.kind

\* (b - a) as seconds; for dates, timedelta(days).
Sub(b, a) ==
    IF a.kind = "date" THEN (b.v - a.v) * DAY_SECONDS
    ELSE IF a.kind = "aware" THEN Instant(b) - Instant(a)
    ELSE b.v - a.v

\* a + timedelta(seconds = d): a date ignores the part below a day.
AddDuration(a, d) ==
    IF a.kind = "date" THEN [a EXCEPT !.v = a.v + (d \div DAY_SECONDS)]
    ELSE [a EXCEPT !.v = a.v + d]

\* ------------------------------------------------------- calendar components
\* A component as icalendar parses it. dtstart / dtend are None and duration
\* is NoDuration when the property is absent; summary is <<>> when absent
\* (every reader defaults it to vText("")). uid stands for the opaque
\* payload; cloned tells a clone from the feed's own object. inner is the
\* name of the sub-component nested in it ("" when it has none), owner the
\* uid of the component it is nested in (0 at the top level of the feed).
Component(n, s, e, d, t) ==
    [name |-> n, dtstart |-> s, dtend |-> e, duration |-> d, summary |-> t,
     uid |-> 0, cloned |-> FALSE, inner |-> "", owner |-> 0]

\* A component holding one nested sub-component: an event with an alarm,
\* a timezone definition with a standard-time block.
Holding(c, n) == [c EXCEPT !.inner = n]

VEvent(s, e, d, t) == Component("VEVENT", s, e, d, t)
VTimezone == Component("VTIMEZONE", None, None, NoDuration, <<>>)

\* Event.from_ical(component.to_ical()): a new object with the same properties.
CloneAlias(c) == c
Clone(c) == [c EXCEPT !.cloned = TRUE]

\* "DTEND" in event, "DURATION" in event, "DTSTART" in event
HasEnd(e) == e.dtend.kind # "none"
HasDuration(e) == e.duration # NoDuration
HasStart(e) == e.dtstart.kind # "none"

\* event_key: (start string, end string or None, all-day flag); None is <<>>.
event_key_instant(e) ==
    LET Utc(x) == IF x.kind = "aware" THEN Aware(Instant(x), 0) ELSE x
    IN << StringifyDt(Utc(e.dtstart)),
          IF HasEnd(e) THEN StringifyDt(Utc(e.dtend)) ELSE <<>>,
          ~IsDateTime(e.dtstart) >>
event_key(e) ==
    << StringifyDt(e.dtstart),
       IF HasEnd(e) THEN StringifyDt(e.dtend) ELSE <<>>,
       ~IsDateTime(e.dtstart) >>

\* event.decoded("DTSTART") raises KeyError when the event has no DTSTART.
event_key_raises(e) == ~HasStart(e)

\* The end that event_duration_days computes.
DurationEnd(e) ==
    IF HasEnd(e) THEN e.dtend ELSE AddDuration(e.dtstart, e.duration)

\* event_duration_days raises KeyError without DTSTART, TypeError when the
\* subtraction mixes a date with a datetime or naive with aware.
event_duration_raises(e) ==
    \/ ~HasStart(e)
    \/ /\ HasEnd(e) \/ HasDuration(e)
       /\ SubRaises(DurationEnd(e), e.dtstart)

\* event_duration_days, in units of 1/86400 day: float(days) for an all-day
\* event, total_seconds() / 86400.0 for a timed one, 0.0 with no end.
event_duration_days(e) ==
    IF ~(HasEnd(e) \/ HasDuration(e)) THEN 0
    ELSE Sub(DurationEnd(e), e.dtstart)

\* event_duration_days(new_event) > MAX_DAYS
TooLongGE(e) == event_duration_days(e) >= MAX_DAYS * DAY_SECONDS
TooLong(e) == event_duration_days(e) > MAX_DAYS * DAY_SECONDS

\* summary if str(summary).startswith(prefix) else f"{prefix}{summary}"
PrefixedAlways(summary, prefix) == prefix \o summary
Prefixed(summary, prefix) ==
    IF StartsWith(summary, prefix) THEN summary ELSE prefix \o summary

\* merge_calendars.main: the summary of the stored event after a duplicate
\* with summary prefixed is folded into it.
FoldSummaryAppendAlways(existing, prefixed) == existing \o Separator \o prefixed
FoldSummaryMerge(existing, prefixed) ==
    IF prefixed \notin Range(Split(existing))
    THEN existing \o Separator \o prefixed
    ELSE existing

\* master_script.build_merged_calendar: the parts are stripped, and an empty
\* stored summary is replaced instead of extended.
FoldSummaryMaster(existing, prefixed) ==
    LET parts == IF existing # <<>>
                 THEN {Strip(p) : p \in Range(Split(existing))} ELSE {}
    IN IF prefixed \notin parts
       THEN (IF existing # <<>> THEN existing \o Separator \o prefixed
             ELSE prefixed)
       ELSE existing

\* --------------------------------------------------------- the source list
\* A source descriptor is a JSON object: keys is the set of keys it has.
Get(src, k, default) == IF k \in src.keys THEN src[k] ELSE default

Unnamed == <<"U">>

\* normalise_url: raw_url.find("http") == -1 raises ValueError. A URL is a
\* sequence of tokens, "http" being the scheme token.
HttpPos(url) ==
    IF \E i \in 1..Len(url) : url[i] = "http"
    THEN CHOOSE i \in 1..Len(url) :
            url[i] = "http" /\ \A j \in 1..(i - 1) : url[j] # "http"
    ELSE 0

normalise_url_raises(src) == "URL" \notin src.keys \/ HttpPos(src.URL) = 0
normalise_url(url) == SubSeq(url, HttpPos(url), Len(url))

AllKeys == {"Name", "URL", "Prefix", "Enabled"}

\* The descriptors a source list is drawn from: an enabled source with a
\* prefix, an enabled one with junk before the URL and no Prefix key, a
\* disabled one, one whose URL has no scheme token, one with no URL key.
SourceUniverse ==
    { [keys |-> AllKeys, Name |-> <<"a">>, URL |-> <<"http", "a">>,
       Prefix |-> <<"A">>, Enabled |-> TRUE],
      [keys |-> AllKeys \ {"Prefix"}, Name |-> <<"b">>, URL |-> <<"j", "http", "b">>,
       Prefix |-> <<>>, Enabled |-> TRUE],
      [keys |-> AllKeys, Name |-> <<"c">>, URL |-> <<"http", "c">>,
       Prefix |-> <<"A">>, Enabled |-> FALSE],
      [keys |-> AllKeys, Name |-> <<"d">>, URL |-> <<"j", "d">>,
       Prefix |-> <<"A">>, Enabled |-> TRUE],
      [keys |-> AllKeys \ {"URL"}, Name |-> <<"e">>, URL |-> <<>>,
       Prefix |-> <<>>, Enabled |-> TRUE] }

SourceLists == UNION {[1..n -> SourceUniverse] : n \in 0..MaxSources}

\* ------------------------------------------------------ the fetched feeds
HourStart == Aware(36000, 0)
HourEnd == Aware(39600, 0)

\* The components a fetched feed may hold: one-hour events with the same
\* timing and two titles (one with a leading blank), an all-day event of exactly two days, an all-day
\* event of five days, an event without DTSTART, a timezone definition.
FeedComponents ==
    { VEvent(HourStart, HourEnd, NoDuration, t) : t \in {<<"x">>, <<" ", "x">>} }
    \cup { VEvent(Date(10), Date(12), NoDuration, <<"x">>),
           VEvent(Date(10), Date(15), NoDuration, <<"x">>),
           VEvent(None, None, NoDuration, <<"x">>),
           VTimezone }

\* ------------------------------------------------------------------ state
VARIABLES
    variant,    \* the script running: "merge_calendars", "master_script", ...
    sources,    \* the source list read from the JSON file
    si,         \* index of the source the for loop is at
    pc,         \* where the run is
    nread,      \* components read from the fetched feeds so far
    limit,      \* components the feeds of this run hold in all
    stderr,     \* the skip reports printed (src: the source being processed)
    merged,     \* merged.subcomponents, in order
    seen,       \* seen_events / seen: key -> position in merged of the stored event
    log,        \* per event read: what the loop body did with it
    outfile,    \* the bytes written to output_path; Unwritten before
    now,        \* the clock read at the start of a refresh run, seconds UTC
    cleaned,    \* the pruned calendar of the source being refreshed
    files,      \* the local files written: name -> components
    remote,     \* the paths the remote branch holds
    requests,   \* the remote calls made, in order
    steps,      \* the workflow stages of master_script.main entered, in order
    helper,     \* the GIT_ASKPASS helper file: "absent", "present" or "removed"
    feeds       \* the parsed feeds in memory: their own components, as read

loopVars == <<variant, sources, si, pc, nread, limit, stderr>>
mergeVars == <<merged, seen, log, outfile>>
refreshVars == <<now, cleaned, files>>
publishVars == <<remote, requests, steps, helper>>
vars == <<loopVars, mergeVars, refreshVars, publishVars, feeds>>

\* What a merge run leaves alone.
notMerge == <<refreshVars, publishVars>>

Unwritten == <<"unwritten">>

\* No refresh or publish is part of the run.
RefreshIdle == now = 0 /\ cleaned = <<>> /\ files = <<>>
PublishIdle == remote = {} /\ requests = <<>> /\ steps = <<>> /\ helper = "absent"

\* merged = Calendar(); seen_events = {}; the for loop is at the first source.
MergeStart ==
    /\ si = 1
    /\ pc = "sources"
    /\ nread = 0
    /\ stderr = <<>>
    /\ merged = <<>>
    /\ seen = <<>>
    /\ log = <<>>
    /\ outfile = Unwritten
    /\ feeds = <<>>
    /\ RefreshIdle
    /\ PublishIdle

MergeInit ==
    /\ variant \in {"merge_calendars", "master_script"}
    /\ sources \in SourceLists
    /\ limit = MaxComponents
    /\ MergeStart

Src == sources[si]
CurName == Get(Src, "Name", Unnamed)
CurPrefix == Get(Src, "Prefix", <<>>)

AtSource == pc = "sources" /\ si <= Len(sources)

\* if not src.get("Enabled", False): continue
SkipDisabledFetches ==
    /\ AtSource
    /\ ~Get(Src, "Enabled", FALSE)
    /\ pc' = "walk"
    /\ UNCHANGED <<variant, sources, si, merged, seen, nread, log, stderr, outfile, limit, notMerge, feeds>>
SkipDisabled ==
    /\ AtSource
    /\ ~Get(Src, "Enabled", FALSE)
    /\ si' = si + 1
    /\ UNCHANGED <<variant, sources, pc, merged, seen, nread, log, stderr, outfile, limit, notMerge, feeds>>

\* except (KeyError, ValueError): print(f"Skipping {name}: {e}"); continue
SkipBadUrl ==
    /\ AtSource
    /\ Get(Src, "Enabled", FALSE)
    /\ normalise_url_raises(Src)
    /\ stderr' = Append(stderr, [src |-> si, name |-> CurName, reason |-> "Skipping"])
    /\ si' = si + 1
    /\ UNCHANGED <<variant, sources, pc, merged, seen, nread, log, outfile, limit, notMerge, feeds>>

\* download_ics raised: print(f"   Failed ({e!s}); skipping."); continue
FetchFail ==
    /\ AtSource
    /\ Get(Src, "Enabled", FALSE)
    /\ ~normalise_url_raises(Src)
    /\ stderr' = Append(stderr, [src |-> si, name |-> <<>>, reason |-> "Failed"])
    /\ si' = si + 1
    /\ UNCHANGED <<variant, sources, pc, merged, seen, nread, log, outfile, limit, notMerge, feeds>>

\* cal = download_ics(url) returned a calendar: enter for component in cal.walk()
FetchOk ==
    /\ AtSource
    /\ Get(Src, "Enabled", FALSE)
    /\ ~normalise_url_raises(Src)
    /\ pc' = "walk"
    /\ UNCHANGED <<variant, sources, si, merged, seen, nread, log, stderr, outfile, limit, notMerge, feeds>>

\* ------------------------------------------------------------ the loop body
IsMergeCalendars == variant = "merge_calendars"

\* The component the walk yields next, as the feed's own object.
Read(c) == [c EXCEPT !.uid = nread + 1]

\* new_event with new_event["summary"] = vText(prefixed_summary)
WithPrefix(e) == [e EXCEPT !.summary = Prefixed(e.summary, CurPrefix)]

\* The error the loop body raises on an event, caught by nothing:
\* merge_calendars.main calls event_duration_days first,
\* master_script.build_merged_calendar calls event_key.
BodyRaises(e) ==
    IF IsMergeCalendars THEN event_duration_raises(e) ELSE event_key_raises(e)

\* if event_duration_days(new_event) > MAX_DAYS: continue
\* (build_merged_calendar has no such statement)
Overlong(e) == IsMergeCalendars /\ TooLong(e)

\* if key in seen_events
KeySeenNever(key) == FALSE
KeySeen(key) == key \in DOMAIN seen

FoldSummary(existing, prefixed) ==
    IF IsMergeCalendars THEN FoldSummaryMerge(existing, prefixed)
    ELSE FoldSummaryMaster(existing, prefixed)

\* existing["summary"] = vText(...): the stored object after the fold.
FoldedLastWins(existing, new) ==
    [new EXCEPT !.summary = FoldSummary(existing.summary, new.summary)]
Folded(existing, new) ==
    [existing EXCEPT !.summary = FoldSummary(existing.summary, new.summary)]

\* An assignment to a property of obj is seen through every reference to
\* the object: when obj is a feed's own component, the feed holds the change.
Stored(fs, obj) ==
    [i \in DOMAIN fs |-> IF ~obj.cloned /\ fs[i].uid = obj.uid THEN obj ELSE fs[i]]

\* The feed in memory once the walk has yielded c.
Yielded(c) == Append(feeds, Read(c))

Taking(c) ==
    /\ pc = "walk"
    /\ nread < limit
    /\ nread' = nread + 1

Logged(e, act) == Append(log, [src |-> si, ev |-> e, act |-> act])

\* cal.walk() is recursive: after a component it yields its sub-components.
Walked(c) == IF c.inner # "" THEN "inside" ELSE "walk"

\* The sub-component the walk yields after the component it last yielded.
NestedIn(parent) ==
    [Component(parent.inner, None, None, NoDuration, <<>>) EXCEPT !.owner = parent.uid]

\* component.name != "VEVENT": merged.add_component(component); continue
PassThrough(c) ==
    /\ Taking(c)
    /\ c.name # "VEVENT"
    /\ c.name # "VCALENDAR"
    /\ merged' = Append(merged, Read(c))
    /\ feeds' = Yielded(c)
    /\ pc' = Walked(c)
    /\ UNCHANGED <<variant, sources, si, seen, log, stderr, outfile, limit, notMerge>>

\* An exception leaves main: nothing of the loop or after it runs.
Raise(c) ==
    /\ Taking(c)
    /\ c.name = "VEVENT"
    /\ BodyRaises(Clone(Read(c)))
    /\ pc' = "raised"
    /\ log' = Logged(Clone(Read(c)), "raise")
    /\ feeds' = Yielded(c)
    /\ UNCHANGED <<variant, sources, si, merged, seen, stderr, outfile, limit, notMerge>>

DropOverlong(c) ==
    /\ Taking(c)
    /\ c.name = "VEVENT"
    /\ ~BodyRaises(Clone(Read(c)))
    /\ Overlong(Clone(Read(c)))
    /\ log' = Logged(Clone(Read(c)), "drop")
    /\ feeds' = Yielded(c)
    /\ pc' = Walked(c)
    /\ UNCHANGED <<variant, sources, si, merged, seen, stderr, outfile, limit, notMerge>>

\* key in seen: fold the summary into the stored event; continue
FoldEvent(c) ==
    LET new_event == WithPrefix(Clone(Read(c)))
        key == event_key(new_event)
    IN /\ Taking(c)
       /\ c.name = "VEVENT"
       /\ ~BodyRaises(Clone(Read(c)))
       /\ ~Overlong(Clone(Read(c)))
       /\ KeySeen(key)
       /\ merged' = [merged EXCEPT ![seen[key]] = Folded(@, new_event)]
       /\ log' = Logged(new_event, "fold")
       /\ feeds' = Stored(Stored(Yielded(c), new_event), Folded(merged[seen[key]], new_event))
       /\ pc' = Walked(c)
       /\ UNCHANGED <<variant, sources, si, seen, stderr, outfile, limit, notMerge>>

\* merged.add_component(new_event); seen[key] = new_event
InsertEventFirst(c) ==
    LET new_event == WithPrefix(Clone(Read(c)))
        key == event_key(new_event)
    IN /\ Taking(c)
       /\ c.name = "VEVENT"
       /\ ~BodyRaises(Clone(Read(c)))
       /\ ~Overlong(Clone(Read(c)))
       /\ ~KeySeen(key)
       /\ merged' = <<new_event>> \o merged
       /\ seen' = (key :> 1) @@ [k \in DOMAIN seen |-> seen[k] + 1]
       /\ log' = Logged(new_event, "insert")
       /\ feeds' = Stored(Yielded(c), new_event)
       /\ pc' = Walked(c)
       /\ UNCHANGED <<variant, sources, si, stderr, outfile, limit, notMerge>>
InsertEvent(c) ==
    LET new_event == WithPrefix(Clone(Read(c)))
        key == event_key(new_event)
    IN /\ Taking(c)
       /\ c.name = "VEVENT"
       /\ ~BodyRaises(Clone(Read(c)))
       /\ ~Overlong(Clone(Read(c)))
       /\ ~KeySeen(key)
       /\ merged' = Append(merged, new_event)
       /\ seen' = (key :> (Len(merged) + 1)) @@ seen
       /\ log' = Logged(new_event, "insert")
       /\ feeds' = Stored(Yielded(c), new_event)
       /\ pc' = Walked(c)
       /\ UNCHANGED <<variant, sources, si, stderr, outfile, limit, notMerge>>

\* The walk yields the sub-component of the component before it; it is no
\* VEVENT and no VCALENDAR: merged.add_component(component); continue
PassNested ==
    /\ pc = "inside"
    /\ merged' = Append(merged, Read(NestedIn(feeds[Len(feeds)])))
    /\ feeds' = Yielded(NestedIn(feeds[Len(feeds)]))
    /\ nread' = nread + 1
    /\ pc' = "walk"
    /\ UNCHANGED <<variant, sources, si, seen, log, stderr, outfile, limit, notMerge>>

\* cal.walk() is exhausted: on to the next source.
EndWalk ==
    /\ pc = "walk"
    /\ pc' = "sources"
    /\ si' = si + 1
    /\ UNCHANGED <<variant, sources, merged, seen, nread, log, stderr, outfile, limit, notMerge, feeds>>

\* The for loop is over: fh.write(merged.to_ical())
WriteOutput ==
    /\ pc = "sources"
    /\ si > Len(sources)
    /\ outfile' = merged
    /\ pc' = "done"
    /\ UNCHANGED <<variant, sources, si, merged, seen, nread, log, stderr, limit, notMerge, feeds>>

MergeNext ==
    \/ SkipDisabled
    \/ SkipBadUrl
    \/ FetchFail
    \/ FetchOk
    \/ \E c \in FeedComponents : PassThrough(c)
    \/ \E c \in FeedComponents : Raise(c)
    \/ \E c \in FeedComponents : DropOverlong(c)
    \/ \E c \in FeedComponents : FoldEvent(c)
    \/ \E c \in FeedComponents : InsertEvent(c)
    \/ EndWalk
    \/ WriteOutput

Init == MergeInit
Next == MergeNext
Spec == Init /\ [][Next]_vars

\* ------------------------------------------------- vocabulary of the properties
MergedEvents == {i \in 1..Len(merged) : merged[i].name = "VEVENT"}

\* The log entries of the events that reached the duplicate detection.
Contributed(l) == log[l].act \in {"insert", "fold"}
Contributions(key) ==
    {l \in 1..Len(log) : Contributed(l) /\ event_key(log[l].ev) = key}

\* Everything of an event but its summary.
SansSummary(e) == [e EXCEPT !.summary = <<>>]

\* The span of an event as the duration filter is specified, in seconds:
\* end minus start, the end being DTEND, else start plus DURATION, else start.
SpanSeconds(e) ==
    IF HasEnd(e) THEN
        (IF e.dtstart.kind = "date" THEN (e.dtend.v - e.dtstart.v) * 86400
         ELSE (e.dtend.v - e.dtend.off) - (e.dtstart.v - e.dtstart.off))
    ELSE IF HasDuration(e) THEN
        (IF e.dtstart.kind = "date" THEN (e.duration \div 86400) * 86400
         ELSE e.duration)
    ELSE 0

RECURSIVE Join(_)
Join(parts) ==
    IF Len(parts) = 0 THEN <<>>
    ELSE IF Len(parts) = 1 THEN parts[1]
    ELSE parts[1] \o Separator \o Join(Tail(parts))

ContainsSeparator(s) == Len(Split(s)) > 1

\* C1: the merged output holds at most one event per identity key, and an
\* event whose key is already in the accumulator is never inserted: the
\* events of the output are exactly the inserted ones, one per key.
C1_OneEventPerKey ==
    /\ \A i, j \in MergedEvents :
          event_key(merged[i]) = event_key(merged[j]) => i = j
    /\ Cardinality(MergedEvents) =
          Cardinality({l \in 1..Len(log) : log[l].act = "insert"})
    /\ \A l \in 1..Len(log) :
          log[l].act = "fold" =>
             \E m \in 1..(l - 1) :
                log[m].act = "insert" /\ event_key(log[m].ev) = event_key(log[l].ev)
    /\ pc = "done" => outfile = merged

C1_Witness ==
    /\ pc = "done"
    /\ \E l \in 1..Len(log) : log[l].act = "fold"

\* C2: the surviving event of a key has the start, end and every field but
\* the summary of the first event, in processing order, that produced the
\* key, and no step changes anything but the summary of a stored event.
C2_FirstOccurrenceKept ==
    \A i \in MergedEvents :
       LET ls == Contributions(event_key(merged[i]))
           first == CHOOSE l \in ls : \A m \in ls : l <= m
       IN /\ ls # {}
          /\ SansSummary(merged[i]) = SansSummary(log[first].ev)
          /\ \A m \in ls : log[first].src <= log[m].src

C2_OnlySummaryChanges ==
    \A i \in 1..Len(merged) :
       /\ Len(merged') >= Len(merged)
       /\ SansSummary(merged'[i]) = SansSummary(merged[i])

\* C2: the first source's representation of a key survives; later
\* duplicates change the summary only.
C2_FirstSourceSurvives ==
    /\ []C2_FirstOccurrenceKept
    /\ [][C2_OnlySummaryChanges]_vars

C2_Witness ==
    /\ pc = "done"
    /\ \E i \in MergedEvents : \E l \in Contributions(event_key(merged[i])) :
          /\ log[l].act = "fold"
          /\ log[l].src > 1
          /\ log[l].ev.uid # merged[i].uid
          /\ merged[i].summary # log[l].ev.summary

\* C3: no event whose duration exceeds the maximum of 2 days is in the merged
\* output, whichever routine wrote it.
C3_NoOverlongEventInOutput ==
    pc = "done" =>
       \A i \in 1..Len(outfile) :
          outfile[i].name = "VEVENT" => SpanSeconds(outfile[i]) <= 2 * 86400

\* C4: no error arising from one source's processing aborts the run: the run
\* never ends by an exception raised in the loop.
C4_NoSourceErrorAborts == pc # "raised"

\* C6: when each of k sources supplies one event of a key, the prefixed
\* summaries being pairwise different and free of the separator, the output
\* holds exactly one event of that key, its summary being S1, ..., Sk joined
\* by ", " in processing order.
C6_Case(key) ==
    LET ls == Contributions(key)
    IN /\ ls # {}
       /\ \A l, m \in ls :
             l # m => /\ log[l].src # log[m].src
                      /\ log[l].ev.summary # log[m].ev.summary
       /\ \A l \in ls : ~ContainsSeparator(log[l].ev.summary)

C6_Summaries(key) ==
    LET IsOfKey(entry) ==
            entry.act \in {"insert", "fold"} /\ event_key(entry.ev) = key
        picked == SelectSeq(log, IsOfKey)
    IN [n \in 1..Len(picked) |-> picked[n].ev.summary]

\* C6: k sources supplying one event each of a key give one event whose
\* summary is S1, ..., Sk joined by ", " in processing order.
C6_JoinedInOrder ==
    pc = "done" =>
       \A l \in 1..Len(log) :
          (Contributed(l) /\ C6_Case(event_key(log[l].ev))) =>
             LET key == event_key(log[l].ev)
                 at == {i \in 1..Len(outfile) :
                          outfile[i].name = "VEVENT" /\ event_key(outfile[i]) = key}
             IN /\ Cardinality(at) = 1
                /\ \A i \in at : outfile[i].summary = Join(C6_Summaries(key))

\* ---------------------------------------------- two candidate events folded
\* The summaries the two events may carry: every text of at most MaxLen
\* characters over a letter, the comma and the blank.
Alphabet == {"x", ",", " "}
Texts == UNION {[1..n -> Alphabet] : n \in 0..MaxLen}

\* One enabled source without a Prefix key, listed twice, so that the two
\* events come from one feed or from two.
PlainSource ==
    [keys |-> AllKeys \ {"Prefix"}, Name |-> <<"b">>, URL |-> <<"j", "http", "b">>,
     Prefix |-> <<>>, Enabled |-> TRUE]

Candidate(t) == VEvent(HourStart, HourEnd, NoDuration, t)

FoldInit ==
    /\ variant \in {"merge_calendars", "master_script"}
    /\ sources = <<PlainSource, PlainSource>>
    /\ limit = 2
    /\ MergeStart

FoldNext ==
    \/ FetchOk
    \/ \E t \in Texts : InsertEvent(Candidate(t))
    \/ \E t \in Texts : FoldEvent(Candidate(t))
    \/ EndWalk
    \/ WriteOutput

SpecFold == FoldInit /\ [][FoldNext]_vars

\* The run merged two events of one key with different summaries.
TwoMerged ==
    /\ pc = "done"
    /\ Len(log) = 2
    /\ log[1].act = "insert"
    /\ log[2].act = "fold"
    /\ log[1].ev.summary # log[2].ev.summary

\* b stands in a between two separators (or an end of a) and holds none.
IsPart(b, a) ==
    \E i \in 1..(Len(a) + 1) :
       LET j == i + Len(b) - 1
       IN /\ j <= Len(a)
          /\ SubSeq(a, i, j) = b
          /\ i = 1 \/ (i > 2 /\ SubSeq(a, i - 2, i - 1) = Separator)
          /\ j = Len(a) \/ (j + 2 <= Len(a) /\ SubSeq(a, j + 1, j + 2) = Separator)
          /\ \A n \in 1..(Len(b) - 1) : SubSeq(b, n, n + 1) # Separator

\* C5 as stated: for every pair of different summaries A and B of one key,
\* the final summary is A, then ", ", then B.
C5_AlwaysJoined ==
    TwoMerged =>
       /\ Len(outfile) = 1
       /\ outfile[1].summary = log[1].ev.summary \o Separator \o log[2].ev.summary

\* C5 amended: in merge_calendars.main the final summary is A, then ", ",
\* then B when B is not already one of the parts of A split on ", ", and it
\* stays A when B is one of them.
C5_JoinedUnlessPart ==
    (TwoMerged /\ IsMergeCalendars) =>
       LET A == log[1].ev.summary
           B == log[2].ev.summary
       IN /\ Len(outfile) = 1
          /\ ~IsPart(B, A) => outfile[1].summary = A \o Separator \o B
          /\ IsPart(B, A) => outfile[1].summary = A

C5_Witness ==
    /\ TwoMerged
    /\ IsMergeCalendars
    /\ log[1].src # log[2].src
    /\ ContainsSeparator(log[1].ev.summary)
    /\ outfile[1].summary = log[1].ev.summary \o Separator \o log[2].ev.summary

\* ------------------------------------------------- one event through the filter
FilterStarts == {Date(10), Naive(36000), Aware(36000, 0)}

\* Spans in seconds: none, an hour, a day, two days, two days and a second,
\* three days, five days.
FilterSpans == {0, 3600, 86400, 172800, 172801, 259200, 432000}

\* The ends an event may state for a start: none, the start moved by a span
\* (a date by whole days), the same instants under another stated offset,
\* and an end of another kind than the start.
FilterEnds(s) ==
    {None}
    \cup {AddDuration(s, d) : d \in FilterSpans}
    \cup (IF s.kind = "aware"
          THEN {Aware(s.v + d + 3600, s.off + 3600) : d \in {172800, 172801}}
          ELSE {})
    \cup {Date(12), Naive(36000 + 172800)}

FilterEvents ==
    {VEvent(s, e, NoDuration, <<"x">>) : s \in FilterStarts, e \in FilterEnds(Date(10))
                                        \cup FilterEnds(Naive(36000))
                                        \cup FilterEnds(Aware(36000, 0))}
    \cup {VEvent(s, None, d, <<"x">>) : s \in FilterStarts, d \in FilterSpans}
    \cup {VEvent(None, None, NoDuration, <<"x">>)}

FilterInit ==
    /\ variant = "merge_calendars"
    /\ sources = <<PlainSource>>
    /\ limit = 1
    /\ MergeStart

FilterNext ==
    \/ FetchOk
    \/ \E c \in FilterEvents : Raise(c)
    \/ \E c \in FilterEvents : DropOverlong(c)
    \/ \E c \in FilterEvents : InsertEvent(c)
    \/ EndWalk
    \/ WriteOutput

SpecFilter == FilterInit /\ [][FilterNext]_vars

\* C7: the duration filter keeps an event iff its span is at most 2 days,
\* inclusive: whole days between the dates of an all-day event, seconds over
\* 86400 of a timed one, the end being DTEND, else start plus DURATION, else
\* the start itself.
C7_KeptIffAtMostTwoDays ==
    \A l \in 1..Len(log) :
       log[l].act # "raise" =>
          /\ (log[l].act = "drop") = (SpanSeconds(log[l].ev) > 2 * 86400)
          /\ (log[l].act = "insert") = (SpanSeconds(log[l].ev) <= 2 * 86400)
          /\ (log[l].act = "insert") = (merged # <<>>)
          /\ (~HasEnd(log[l].ev) /\ ~HasDuration(log[l].ev)) => log[l].act = "insert"

\* An all-day event of exactly two days, kept.
C7_Witness ==
    /\ pc = "done"
    /\ Len(outfile) = 1
    /\ outfile[1].dtstart = Date(10)
    /\ outfile[1].dtend = Date(12)

\* ------------------------------------------------------------- file names
Alnum == {"a", "b", "c", "d", "e", "l", "n", "r", "x", "U"}

RECURSIVE StripChar(_, _)
StripChar(s, ch) ==
    IF s # <<>> /\ Head(s) = ch THEN StripChar(Tail(s), ch)
    ELSE IF s # <<>> /\ s[Len(s)] = ch THEN StripChar(SubSeq(s, 1, Len(s) - 1), ch)
    ELSE s

\* master_script.slugify
\* "".join(ch if ch.isalnum() else "_" for ch in name).strip("_")
slugify_master(name) ==
    StripChar([i \in 1..Len(name) |-> IF name[i] \in Alnum THEN name[i] ELSE "_"], "_")

\* re.sub(r"[^A-Za-z0-9_-]+", "_", ...): each run of other characters
\* becomes one underscore.
RECURSIVE SubRuns(_, _)
SubRuns(s, inRun) ==
    IF s = <<>> THEN <<>>
    ELSE IF Head(s) \in Alnum \cup {"_", "-"}
         THEN <<Head(s)>> \o SubRuns(Tail(s), FALSE)
         ELSE (IF inRun THEN <<>> ELSE <<"_">>) \o SubRuns(Tail(s), TRUE)

\* download_calendars.slugify
slugify_download(name) ==
    LET slug == StripChar(SubRuns(Strip(name), FALSE), "_")
    IN IF slug # <<>> THEN slug ELSE <<"c", "a", "l", "e", "n", "d", "a", "r">>

\* f"{slugify(name)}.ics" / slugify(name) + ".ics"
Filename(name) ==
    (IF variant = "download_calendars" THEN slugify_download(name)
     ELSE slugify_master(name)) \o <<".ics">>

\* ------------------------------------------------------ the recency filters
\* week_ago = datetime.now(UTC) - timedelta(days=7)
WeekAgo == Aware(now - WEEK_DAYS * DAY_SECONDS, 0)

\* datetime.date() / date of a value
DateOf(x) == IF x.kind = "date" THEN x.v ELSE x.v \div DAY_SECONDS

\* filter_recent_events: the test that drops an event,
\* dtstart < thresh (thresh naive for a naive start) or dtstart < threshold.date()
StartsBeforeOrAt(dtstart, threshold) ==
    IF dtstart.kind = "aware" THEN Instant(dtstart) <= Instant(threshold)
    ELSE IF dtstart.kind = "naive" THEN dtstart.v <= threshold.v
    ELSE dtstart.v <= DateOf(threshold)
StartsBefore(dtstart, threshold) ==
    IF dtstart.kind = "aware" THEN Instant(dtstart) < Instant(threshold)
    ELSE IF dtstart.kind = "naive" THEN dtstart.v < threshold.v
    ELSE dtstart.v < DateOf(threshold)

\* date.weekday(): Monday is 0; day 0 (1970-01-01) was a Thursday.
Weekday(d) == (d + 3) % 7

\* start_of_last_week(dt.date.today())
start_of_last_week(today) == today - (Weekday(today) + WEEK_DAYS)

\* remove_old_events: the date compared, of DTEND if present, else of DTSTART
EndDate(e) == IF HasEnd(e) THEN DateOf(e.dtend) ELSE DateOf(e.dtstart)

EndsBefore(e, threshold) == EndDate(e) < threshold

\* dt.date.today()
Today == now \div DAY_SECONDS

\* The refresh of one event: whether it raises, whether it is dropped.
\* filter_recent_events needs DTSTART; remove_old_events needs DTEND or DTSTART.
RefreshRaises(e) ==
    IF variant = "download_calendars" THEN ~HasEnd(e) /\ ~HasStart(e)
    ELSE ~HasStart(e)

IsOld(e) ==
    IF variant = "download_calendars"
    THEN EndsBefore(e, start_of_last_week(Today))
    ELSE StartsBefore(e.dtstart, WeekAgo)

\* ------------------------------------------------------ the refresh run
\* The clock of the run: day 20, 10:00:00 UTC, a Wednesday.
Clock == 20 * DAY_SECONDS + 36000
Cutoff == Clock - WEEK_DAYS * DAY_SECONDS

\* What a feed to refresh may hold: timed events at the cutoff (stated in
\* UTC) and one second before it (stated an hour east), naive events at and
\* before the cutoff's wall time, all-day events on the cutoff's date, the
\* day before, and long before (with an end), an event without DTSTART, a
\* timezone definition.
RefreshComponents ==
    { VEvent(Aware(Cutoff, 0), None, NoDuration, <<"x">>),
      VEvent(Aware(Cutoff - 1 + 3600, 3600), None, NoDuration, <<"x">>),
      VEvent(Naive(Cutoff), None, NoDuration, <<"x">>),
      VEvent(Naive(Cutoff - 1), None, NoDuration, <<"x">>),
      VEvent(Date(13), None, NoDuration, <<"x">>),
      VEvent(Date(12), None, NoDuration, <<"x">>),
      VEvent(Date(9), Date(10), NoDuration, <<"x">>),
      VEvent(None, None, NoDuration, <<"x">>),
      VTimezone }

\* An enabled source whose Name differs from that of source a by a
\* punctuation mark.
Namesake ==
    [keys |-> AllKeys, Name |-> <<"a", "!">>, URL |-> <<"http", "f">>,
     Prefix |-> <<>>, Enabled |-> TRUE]

RunSources ==
    {src \in SourceUniverse : src.Name \in {<<"a">>, <<"c">>, <<"d">>}} \cup {Namesake}
RunSourceLists == UNION {[1..n -> RunSources] : n \in 0..MaxSources}

\* GITHUB_PATH of push_to_github.py, the merged file of master_script.py
CombinedPath == <<"combined.ics">>
RemotePaths == {Filename(src.Name) : src \in RunSources} \cup {CombinedPath}

RunStart ==
    /\ si = 1
    /\ nread = 0
    /\ limit = MaxRefreshed
    /\ stderr = <<>>
    /\ merged = <<>>
    /\ seen = <<>>
    /\ log = <<>>
    /\ outfile = Unwritten
    /\ feeds = <<>>
    /\ now = Clock
    /\ cleaned = <<>>
    /\ requests = <<>>
    /\ steps = <<>>
    /\ helper = "absent"

\* download_calendars.main and master_script.main start with the source
\* list; push_to_github.main with the file to upload, which may be missing.
RunInit ==
    /\ RunStart
    /\ \/ /\ variant = "download_calendars"
          /\ sources \in RunSourceLists
          /\ pc = "sources"
          /\ files = <<>>
          /\ remote \in {{}, RemotePaths}
       \/ /\ variant = "master_script"
          /\ sources \in RunSourceLists
          /\ pc = "start"
          /\ files = <<>>
          /\ remote = {}
       \/ /\ variant = "push_to_github"
          /\ sources = <<>>
          /\ pc = "push"
          /\ files \in {<<>>, (CombinedPath :> <<>>)}
          /\ remote \in {{}, RemotePaths}

\* What no step of a refresh or publish run changes.
runFixed == <<variant, sources, limit, merged, seen, outfile, now>>

IsDownload == variant = "download_calendars"

\* filter_recent_events adds _clone(component); remove_old_events leaves the
\* feed's own object in the calendar.
Refreshed(c) == IF IsDownload THEN Read(c) ELSE Clone(Read(c))

\* A component that is no VEVENT is kept.
RefreshPass(c) ==
    /\ Taking(c)
    /\ c.name # "VEVENT"
    /\ cleaned' = Append(cleaned, Refreshed(c))
    /\ log' = Logged(Read(c), "pass")
    /\ feeds' = Yielded(c)
    /\ UNCHANGED <<runFixed, si, pc, stderr, files, publishVars>>

\* component.decoded("DTSTART") raises KeyError: the run ends there.
RefreshRaise(c) ==
    /\ Taking(c)
    /\ c.name = "VEVENT"
    /\ RefreshRaises(Read(c))
    /\ pc' = "raised"
    /\ log' = Logged(Read(c), "raise")
    /\ feeds' = Yielded(c)
    /\ UNCHANGED <<runFixed, si, stderr, cleaned, files, publishVars>>

\* if dtstart < thresh: continue / to_remove.append(component), and then
\* cal.subcomponents.remove(comp): remove_old_events takes the component out
\* of the feed itself.
RefreshDrop(c) ==
    /\ Taking(c)
    /\ c.name = "VEVENT"
    /\ ~RefreshRaises(Read(c))
    /\ IsOld(Read(c))
    /\ log' = Logged(Read(c), "old")
    /\ feeds' = IF IsDownload THEN feeds ELSE Yielded(c)
    /\ UNCHANGED <<runFixed, si, pc, stderr, cleaned, files, publishVars>>

RefreshKeep(c) ==
    /\ Taking(c)
    /\ c.name = "VEVENT"
    /\ ~RefreshRaises(Read(c))
    /\ ~IsOld(Read(c))
    /\ cleaned' = Append(cleaned, Refreshed(c))
    /\ log' = Logged(Read(c), "keep")
    /\ feeds' = Yielded(c)
    /\ UNCHANGED <<runFixed, si, pc, stderr, files, publishVars>>

\* The calendar is pruned: write it to <slug>.ics; download_calendars then
\* calls push_file on it, master_script goes on to the next source.
EndRefresh ==
    /\ pc = "walk"
    /\ files' = (Filename(CurName) :> cleaned) @@ files
    /\ cleaned' = <<>>
    /\ IF IsDownload THEN pc' = "push" /\ si' = si
       ELSE pc' = "sources" /\ si' = si + 1
    /\ UNCHANGED <<runFixed, nread, stderr, log, publishVars, feeds>>

\* ------------------------------------------------------------- push_file
\* cfg["path"] and the local file of the call
PushPath == IF IsDownload THEN Filename(CurName) ELSE CombinedPath

Request(m, path, sha, ok) ==
    [method |-> m, path |-> path, sha |-> sha, ok |-> ok,
     existed |-> path \in remote, src |-> si]

\* if not local_file.is_file(): sys.exit(...)
PushMissingFile ==
    /\ pc = "push"
    /\ PushPath \notin DOMAIN files
    /\ pc' = "exit_error"
    /\ UNCHANGED <<runFixed, si, nread, stderr, log, cleaned, files, publishVars, feeds>>

\* resp = GET; resp.ok, and the JSON holds the sha of the existing file
GetFound ==
    /\ pc = "push"
    /\ PushPath \in DOMAIN files
    /\ PushPath \in remote
    /\ requests' = Append(requests, Request("GET", PushPath, TRUE, TRUE))
    /\ pc' = "put"
    /\ UNCHANGED <<runFixed, si, nread, stderr, log, cleaned, files, remote, steps, helper, feeds>>

\* resp = GET; not resp.ok (404 for a new path, or any other error): sha = None
GetNotOk ==
    /\ pc = "push"
    /\ PushPath \in DOMAIN files
    /\ requests' = Append(requests, Request("GET", PushPath, FALSE, FALSE))
    /\ pc' = "put"
    /\ UNCHANGED <<runFixed, si, nread, stderr, log, cleaned, files, remote, steps, helper, feeds>>

\* if sha: payload["sha"] = sha
PayloadHasSha == requests[Len(requests)].sha

\* r.status_code in (200, 201): the remote takes a create of a new path and
\* an update that names the sha of an existing one.
PutAccepted ==
    /\ pc = "put"
    /\ PayloadHasSha = (PushPath \in remote)
    /\ requests' = Append(requests, Request("PUT", PushPath, PayloadHasSha, TRUE))
    /\ remote' = remote \cup {PushPath}
    /\ IF IsDownload THEN pc' = "sources" /\ si' = si + 1
       ELSE pc' = "done" /\ si' = si
    /\ UNCHANGED <<runFixed, nread, stderr, log, cleaned, files, steps, helper, feeds>>

\* else: sys.exit(f"GitHub API error ...")
AfterRejectionGoOn == IF IsDownload THEN "sources" ELSE "done"
AfterRejection == "exit_error"

PutRejected ==
    /\ pc = "put"
    /\ requests' = Append(requests, Request("PUT", PushPath, PayloadHasSha, FALSE))
    /\ pc' = AfterRejection
    /\ si' = IF pc' = "sources" THEN si + 1 ELSE si
    /\ UNCHANGED <<runFixed, nread, stderr, log, cleaned, files, remote, steps, helper, feeds>>

\* download_calendars.main: the loop is over, print "Done."
DownloadDone ==
    /\ IsDownload
    /\ pc = "sources"
    /\ si > Len(sources)
    /\ pc' = "done"
    /\ UNCHANGED <<runFixed, si, nread, stderr, log, cleaned, files, publishVars, feeds>>

\* ------------------------------------------------------ master_script.main
IsMaster == variant = "master_script"

Stage(name) == Append(steps, name)

\* force_sync(branch): not a git repo, or the four git commands succeed
ForceSync ==
    /\ pc = "start"
    /\ steps' = Stage("force_sync")
    /\ pc' = "sources"
    /\ UNCHANGED <<runFixed, si, nread, stderr, log, cleaned, files, remote, requests, helper, feeds>>

\* run(...) of a git command of force_sync fails: sys.exit
ForceSyncFail ==
    /\ pc = "start"
    /\ steps' = Stage("force_sync")
    /\ pc' = "exit_error"
    /\ UNCHANGED <<runFixed, si, nread, stderr, log, cleaned, files, remote, requests, helper, feeds>>

\* refresh_individual_calendars returns: print "All calendars refreshed"
RefreshDoneSkipsMerge ==
    /\ IsMaster
    /\ pc = "sources"
    /\ si > Len(sources)
    /\ steps' = Stage("refresh")
    /\ pc' = "commit"
    /\ UNCHANGED <<runFixed, si, nread, stderr, log, cleaned, files, remote, requests, helper, feeds>>
RefreshDone ==
    /\ IsMaster
    /\ pc = "sources"
    /\ si > Len(sources)
    /\ steps' = Stage("refresh")
    /\ pc' = "merge"
    /\ UNCHANGED <<runFixed, si, nread, stderr, log, cleaned, files, remote, requests, helper, feeds>>

\* build_merged_calendar(json_path, combined_out) writes the merged file
BuildMerged ==
    /\ pc = "merge"
    /\ steps' = Stage("merge")
    /\ files' = (CombinedPath :> <<>>) @@ files
    /\ pc' = "commit"
    /\ UNCHANGED <<runFixed, si, nread, stderr, log, cleaned, remote, requests, helper, feeds>>

\* build_merged_calendar raises on a component (an event without DTSTART)
BuildMergedRaise ==
    /\ pc = "merge"
    /\ steps' = Stage("merge")
    /\ pc' = "raised"
    /\ UNCHANGED <<runFixed, si, nread, stderr, log, cleaned, files, remote, requests, helper, feeds>>

\* run(["git", ..., "add", "-A"]) fails: sys.exit
AddFail ==
    /\ pc = "commit"
    /\ pc' = "exit_error"
    /\ UNCHANGED <<runFixed, si, nread, stderr, log, cleaned, files, publishVars, feeds>>

\* git commit says "nothing to commit": return
CommitNothing ==
    /\ pc = "commit"
    /\ steps' = Stage("commit")
    /\ pc' = "returned"
    /\ UNCHANGED <<runFixed, si, nread, stderr, log, cleaned, files, remote, requests, helper, feeds>>

Commit ==
    /\ pc = "commit"
    /\ steps' = Stage("commit")
    /\ pc' = "push_git"
    /\ UNCHANGED <<runFixed, si, nread, stderr, log, cleaned, files, remote, requests, helper, feeds>>

\* args.repo and args.token: env, helper = git_env_with_askpass(...)
PushAskpass ==
    /\ pc = "push_git"
    /\ helper' = "present"
    /\ pc' = "pushing"
    /\ UNCHANGED <<runFixed, si, nread, stderr, log, cleaned, files, remote, requests, steps, feeds>>

GitPush(ok) == Append(requests, Request("git push", CombinedPath, FALSE, ok))

\* pr.returncode == 0; finally: os.remove(helper); print "Completed"
PushOk ==
    /\ pc = "pushing"
    /\ requests' = GitPush(TRUE)
    /\ steps' = Stage("push")
    /\ helper' = "removed"
    /\ pc' = "done"
    /\ UNCHANGED <<runFixed, si, nread, stderr, log, cleaned, files, remote, feeds>>

\* pr.returncode != 0: sys.exit("git push failed"); finally: os.remove(helper)
PushFailKeepsHelper ==
    /\ pc = "pushing"
    /\ requests' = GitPush(FALSE)
    /\ steps' = Stage("push")
    /\ pc' = AfterRejection
    /\ UNCHANGED <<runFixed, si, nread, stderr, log, cleaned, files, remote, helper, feeds>>
PushFail ==
    /\ pc = "pushing"
    /\ requests' = GitPush(FALSE)
    /\ steps' = Stage("push")
    /\ helper' = "removed"
    /\ pc' = AfterRejection
    /\ UNCHANGED <<runFixed, si, nread, stderr, log, cleaned, files, remote, feeds>>

\* no token or repo: run(["git", ..., "push", "origin", branch])
FallbackPushOk ==
    /\ pc = "push_git"
    /\ requests' = GitPush(TRUE)
    /\ steps' = Stage("push")
    /\ pc' = "done"
    /\ UNCHANGED <<runFixed, si, nread, stderr, log, cleaned, files, remote, helper, feeds>>

FallbackPushFail ==
    /\ pc = "push_git"
    /\ requests' = GitPush(FALSE)
    /\ steps' = Stage("push")
    /\ pc' = AfterRejection
    /\ UNCHANGED <<runFixed, si, nread, stderr, log, cleaned, files, remote, helper, feeds>>

RunNext ==
    \/ SkipDisabled
    \/ SkipBadUrl
    \/ FetchFail
    \/ FetchOk
    \/ \E c \in RefreshComponents : RefreshPass(c)
    \/ \E c \in RefreshComponents : RefreshRaise(c)
    \/ \E c \in RefreshComponents : RefreshDrop(c)
    \/ \E c \in RefreshComponents : RefreshKeep(c)
    \/ EndRefresh
    \/ PushMissingFile
    \/ GetFound
    \/ GetNotOk
    \/ PutAccepted
    \/ PutRejected
    \/ DownloadDone
    \/ ForceSync
    \/ ForceSyncFail
    \/ RefreshDone
    \/ BuildMerged
    \/ BuildMergedRaise
    \/ AddFail
    \/ CommitNothing
    \/ Commit
    \/ PushAskpass
    \/ PushOk
    \/ PushFail
    \/ FallbackPushOk
    \/ FallbackPushFail

SpecRun == RunInit /\ [][RunNext]_vars

\* C8: every PUT of push_file directly follows a GET of the same path, it
\* carries the sha iff the path exists on the remote branch, and a rejected
\* PUT ends the call in an error.
C8_TokenIffPathExists ==
    \A k \in 1..Len(requests) :
       requests[k].method = "PUT" =>
          /\ k > 1
          /\ requests[k - 1].method = "GET"
          /\ requests[k - 1].path = requests[k].path
          /\ requests[k].sha = requests[k].existed
          /\ ~requests[k].ok => pc = "exit_error"

\* C9: once a remote write (a PUT or a git push) failed, the run has ended
\* in an error: the failed write is the last remote call, no source after
\* the one being published is looked at, and nothing more happens.
IsWrite(r) == r.method \in {"PUT", "git push"}

C9_FailedWriteStops ==
    \A k \in 1..Len(requests) :
       (IsWrite(requests[k]) /\ ~requests[k].ok) =>
          /\ pc = "exit_error"
          /\ k = Len(requests)
          /\ si = requests[k].src

C9_NothingAfterExit == pc = "exit_error" => vars' = vars

\* C9: a rejected remote write is fatal: the run ends in an error and does
\* nothing more.
C9_PublishFailureIsFatal ==
    /\ []C9_FailedWriteStops
    /\ [][C9_NothingAfterExit]_vars

\* A PUT is rejected while a later enabled source is still waiting.
C9_Witness ==
    /\ pc = "exit_error"
    /\ requests # <<>>
    /\ requests[Len(requests)].method = "PUT"
    /\ ~requests[Len(requests)].ok
    /\ si < Len(sources)
    /\ Get(sources[si + 1], "Enabled", FALSE)

\* The recency rule as specified: an event is kept iff its start is not
\* before now - 7 days: an aware start by its instant, a naive start by its
\* wall time against the cutoff's UTC wall time, a date against the cutoff's
\* date.
NotBeforeCutoff(e) ==
    LET cutoff == now - 7 * 86400
    IN IF e.dtstart.kind = "aware" THEN e.dtstart.v - e.dtstart.off >= cutoff
       ELSE IF e.dtstart.kind = "naive" THEN e.dtstart.v >= cutoff
       ELSE e.dtstart.v >= cutoff \div 86400

RecencyRule ==
    \A l \in 1..Len(log) :
       /\ log[l].act \in {"keep", "old"} => (log[l].act = "keep") = NotBeforeCutoff(log[l].ev)
       /\ log[l].ev.name # "VEVENT" => log[l].act = "pass"
       /\ (log[l].src = si /\ pc = "walk") =>
             (log[l].act \in {"keep", "pass"}) =
                (\E i \in 1..Len(cleaned) : cleaned[i].uid = log[l].ev.uid)

Fetched(i) ==
    /\ i < si
    /\ Get(sources[i], "Enabled", FALSE)
    /\ ~normalise_url_raises(sources[i])
    /\ \A k \in 1..Len(stderr) : stderr[k].src # i

\* The components of source i that its recency filter kept.
KeptOf(i) ==
    {log[l].ev.uid : l \in {m \in 1..Len(log) :
                                log[m].src = i /\ log[m].act \in {"keep", "pass"}}}

FileOf(i) == Filename(Get(sources[i], "Name", Unnamed))

RefreshOver ==
    \/ IsDownload /\ pc = "done"
    \/ IsMaster /\ pc = "merge"

\* C11: after the refresh pass every enabled source that was fetched has its
\* own file holding its own filtered feed, and two different sources never
\* share a file.
C11_OneFilePerSource ==
    RefreshOver =>
       \A i \in 1..Len(sources) :
          Fetched(i) =>
             /\ FileOf(i) \in DOMAIN files
             /\ {files[FileOf(i)][n].uid : n \in 1..Len(files[FileOf(i)])} = KeptOf(i)
             /\ \A j \in 1..Len(sources) :
                   (Fetched(j) /\ sources[j] # sources[i]) => FileOf(j) # FileOf(i)

\* ------------------------------------------------ one named source refreshed
\* The Names a source may carry: every text of at most MaxLen characters
\* over a letter, a punctuation mark, the hyphen, the underscore and the blank.
NameAlphabet == {"a", "!", "-", "_", " "}
Names == UNION {[1..n -> NameAlphabet] : n \in 0..MaxLen}

NamedSource(name) ==
    [keys |-> AllKeys, Name |-> name, URL |-> <<"http", "a">>,
     Prefix |-> <<>>, Enabled |-> TRUE]

SlugInit ==
    /\ RunStart
    /\ \E name \in Names : sources = <<NamedSource(name)>>
    /\ files = <<>>
    /\ remote = {}
    /\ \/ variant = "download_calendars" /\ pc = "sources"
       \/ variant = "master_script" /\ pc = "start"

SlugNext ==
    \/ ForceSync
    \/ FetchOk
    \/ EndRefresh
    \/ GetNotOk
    \/ PutAccepted
    \/ DownloadDone
    \/ RefreshDone

SpecSlug == SlugInit /\ [][SlugNext]_vars

\* The slug of a written file: its name without the ".ics" ending.
SlugOfFile(f) == SubSeq(f, 1, Len(f) - 1)

\* Every character that is not alphanumeric replaced by an underscore, then
\* leading and trailing underscores trimmed.
Underscored(name) ==
    StripChar([i \in 1..Len(name) |-> IF name[i] \in Alnum THEN name[i] ELSE "_"], "_")

\* C12: the slug of every Name is non-empty, holds only alphanumerics and
\* underscores, and is the Name with every other character replaced by an
\* underscore and the outer underscores trimmed, unless that is empty.
C12_SlugSafe ==
    \A f \in DOMAIN files :
       LET slug == SlugOfFile(f)
           name == sources[1].Name
       IN /\ slug # <<>>
          /\ \A n \in 1..Len(slug) : slug[n] \in Alnum \cup {"_"}
          /\ Underscored(name) # <<>> => slug = Underscored(name)

\* The reports about source i.
ReportsOf(i) == {k \in 1..Len(stderr) : stderr[k].src = i}

NameOf(i) == Get(sources[i], "Name", Unnamed)

\* C13: every skipped source is reported with its name and a reason before
\* the run moves on: a source the loop has passed that is disabled or has no
\* usable URL has a report naming it, and every report (a failed fetch
\* included) names the source it is about.
C13_EverySkipReported ==
    /\ \A i \in 1..Len(sources) :
          (i < si /\ (~Get(sources[i], "Enabled", FALSE) \/ normalise_url_raises(sources[i])))
             => \E k \in ReportsOf(i) : stderr[k].name = NameOf(i)
    /\ \A k \in 1..Len(stderr) : stderr[k].name = NameOf(stderr[k].src)

\* ------------------------------------------------------ a run of any script
\* A merge run reads no clock; a refresh or publish run starts by reading it.
IsMergeRun == now = 0

AllInit == MergeInit \/ RunInit

AllNext ==
    \/ IsMergeRun /\ MergeNext
    \/ ~IsMergeRun /\ RunNext

SpecAll == AllInit /\ [][AllNext]_vars

Disabled(i) == ~Get(sources[i], "Enabled", FALSE)

\* Nothing recorded is about a disabled source: no event read, no fetch
\* failure, no remote call, and the loop is never inside one.
C14_NothingOfDisabled ==
    \A i \in 1..Len(sources) :
       Disabled(i) =>
          /\ \A l \in 1..Len(log) : log[l].src # i
          /\ \A k \in 1..Len(stderr) : stderr[k].src # i
          /\ \A k \in 1..Len(requests) : requests[k].src # i
          /\ pc \in {"walk", "push", "put"} => si # i

\* While the loop is at a disabled source the only step is the one to the
\* next source: no fetch, no component read, nothing written or published.
C14_DisabledOnlyPassed ==
    (pc = "sources" /\ si <= Len(sources) /\ Disabled(si)) =>
       /\ si' = si + 1
       /\ pc' = pc
       /\ UNCHANGED <<merged, seen, log, stderr, outfile, nread, cleaned, files, remote, requests, feeds>>

\* C14: a source entry with Enabled false contributes nothing to any output
\* and is never fetched.
C14_DisabledContributesNothing ==
    /\ []C14_NothingOfDisabled
    /\ [][C14_DisabledOnlyPassed]_vars

\* A finished run passed a disabled source and then took events of an
\* enabled one into an output.
C14_Witness ==
    /\ pc = "done"
    /\ Len(sources) = 2
    /\ Disabled(1)
    /\ \E l \in 1..Len(log) : log[l].src = 2 /\ log[l].act \in {"insert", "keep"}

\* The first event read that produced the key.
FirstOf(key) == CHOOSE l \in Contributions(key) : \A m \in Contributions(key) : l <= m

\* The events of the output stand in the order in which their keys were
\* first produced: earlier source first, feed order within a source.
C15_Ordered ==
    /\ \A i, j \in MergedEvents :
          LET fi == FirstOf(event_key(merged[i]))
              fj == FirstOf(event_key(merged[j]))
          IN /\ Contributions(event_key(merged[i])) # {}
             /\ Contributions(event_key(merged[j])) # {}
             /\ (i < j) = (fi < fj)
             /\ i < j => log[fi].src <= log[fj].src
    /\ pc = "done" => outfile = merged

\* No step moves a component of the output: what stands at a position keeps
\* its key, and the output only grows at its end.
C15_NoMove ==
    /\ Len(merged') >= Len(merged)
    /\ \A i \in 1..Len(merged) :
          /\ merged'[i].name = merged[i].name
          /\ merged'[i].uid = merged[i].uid

\* C15: events appear in the merged output in first-seen order, and folding
\* a later duplicate never moves an event.
C15_FirstSeenOrder ==
    /\ []C15_Ordered
    /\ [][C15_NoMove]_vars

\* Two events in the output, the first of which took a duplicate after the
\* second was inserted.
C15_Witness ==
    /\ pc = "done"
    /\ Len(log) = 3
    /\ log[1].act = "insert"
    /\ log[2].act = "insert"
    /\ log[3].act = "fold"
    /\ event_key(log[3].ev) = event_key(log[1].ev)
    /\ log[3].src > log[2].src
    /\ Len(outfile) = 2
    /\ outfile[1].summary # log[1].ev.summary

\* ------------------------------------------- one event prefixed, then again
\* An enabled source with the given Prefix.
PrefixSource(prefix) ==
    [keys |-> AllKeys, Name |-> <<"a">>, URL |-> <<"http", "a">>,
     Prefix |-> prefix, Enabled |-> TRUE]

\* Two sources with one prefix (every text of at most MaxLen characters, or
\* no Prefix key at all); the second feed serves what the first run of the
\* prefix step produced.
PrefixInit ==
    /\ variant \in {"merge_calendars", "master_script"}
    /\ sources \in {<<PrefixSource(t), PrefixSource(t)>> : t \in Texts}
                   \cup {<<PlainSource, PlainSource>>}
    /\ limit = 2
    /\ MergeStart

PrefixNext ==
    \/ FetchOk
    \/ \E t \in Texts : InsertEvent(Candidate(t))
    \/ Len(merged) = 1 /\ Len(log) = 1 /\ FoldEvent(Candidate(log[1].ev.summary))
    \/ EndWalk
    \/ WriteOutput

SpecPrefix == PrefixInit /\ [][PrefixNext]_vars

\* C16: the prefix step applied to an event that already went through it,
\* with the same prefix, leaves the summary as it was after the first time.
C16_PrefixIdempotent ==
    Len(log) = 2 =>
       /\ log[2].ev.summary = log[1].ev.summary
       /\ StartsWith(log[1].ev.summary, Get(sources[1], "Prefix", <<>>))

\* A non-empty prefix, a summary longer than it, the step applied twice.
C16_Witness ==
    /\ pc = "done"
    /\ Len(log) = 2
    /\ sources[1].Prefix = <<"x">>
    /\ log[1].src # log[2].src
    /\ Len(log[2].ev.summary) > 1

\* ------------------------------------------------ events of differing timing
\* The feeds hold: an hour stated in UTC, the same hour stated an hour east,
\* the same wall time without offset, the same start without an end, an
\* all-day event with and without an end, an event starting at the midnight
\* of that day.
KeyEvents ==
    { VEvent(HourStart, HourEnd, NoDuration, <<"x">>),
      VEvent(Aware(39600, 3600), Aware(43200, 3600), NoDuration, <<"x">>),
      VEvent(Naive(36000), Naive(39600), NoDuration, <<"x">>),
      VEvent(HourStart, None, NoDuration, <<"x">>),
      VEvent(Date(0), Date(1), NoDuration, <<"x">>),
      VEvent(Date(0), None, NoDuration, <<"x">>),
      VEvent(Naive(0), None, NoDuration, <<"x">>) }

KeySources == {src \in SourceUniverse : src.Name \in {<<"a">>, <<"b">>}}

KeyInit ==
    /\ variant \in {"merge_calendars", "master_script"}
    /\ sources \in UNION {[1..n -> KeySources] : n \in 1..MaxSources}
    /\ limit = MaxComponents
    /\ MergeStart

KeyNext ==
    \/ FetchOk
    \/ \E c \in KeyEvents : InsertEvent(c)
    \/ \E c \in KeyEvents : FoldEvent(c)
    \/ EndWalk
    \/ WriteOutput

SpecKey == KeyInit /\ [][KeyNext]_vars

\* Two events state the same timing: the same start as written (date or
\* wall time, and offset if any), the same end as written or no end both,
\* both all-day or both timed.
SameStated(e, f) ==
    /\ e.dtstart = f.dtstart
    /\ e.dtend = f.dtend
    /\ (e.dtstart.kind = "date") = (f.dtstart.kind = "date")

\* C17: two events get the same key iff they state the same start, the same
\* end (or none) and the same all-day flag, whatever source or position they
\* come from; an event is merged into a stored one iff an earlier event
\* stated the same timing, so the same instant under another offset is a
\* different event.
C17_KeyIsStatedTiming ==
    /\ \A l, m \in 1..Len(log) :
          (event_key(log[l].ev) = event_key(log[m].ev)) = SameStated(log[l].ev, log[m].ev)
    /\ \A l \in 1..Len(log) :
          (log[l].act = "fold") =
             (\E m \in 1..(l - 1) : SameStated(log[m].ev, log[l].ev))
    /\ \A i, j \in MergedEvents : SameStated(merged[i], merged[j]) => i = j

\* The same hour stated under two offsets, taken from two sources: two
\* events in the output.
C17_Witness ==
    /\ pc = "done"
    /\ \E i, j \in 1..Len(outfile) :
          /\ outfile[i].dtstart = HourStart
          /\ outfile[j].dtstart = Aware(39600, 3600)
    /\ \E l, m \in 1..Len(log) :
          /\ log[l].src # log[m].src
          /\ log[l].ev.dtstart = HourStart
          /\ log[m].ev.dtstart = Aware(39600, 3600)
          /\ log[m].act = "insert"

\* What the feeds served, as parsed.
Served == FeedComponents \cup RefreshComponents

\* Every feed in memory holds the components it was parsed into, in order,
\* and what the outputs hold of events are other objects.
C18_FeedIntact ==
    ~IsDownload =>
       /\ Len(feeds) = nread
       /\ \A i \in 1..Len(feeds) :
             /\ feeds[i].uid = i
             /\ ~feeds[i].cloned
             /\ [feeds[i] EXCEPT !.uid = 0] \in Served
       /\ \A i \in MergedEvents : merged[i].cloned
       /\ \A i \in 1..Len(cleaned) : cleaned[i].cloned

\* No step changes or removes a component of a feed in memory.
C18_FeedStable ==
    ~IsDownload =>
       /\ Len(feeds') >= Len(feeds)
       /\ \A i \in 1..Len(feeds) : feeds'[i] = feeds[i]

\* C18: the merge pass and the recency filter filter_recent_events never
\* change a parsed source feed: prefixing, folding and filtering act on
\* clones only.
C18_SourceFeedsUntouched ==
    /\ []C18_FeedIntact
    /\ [][C18_FeedStable]_vars

\* A merge run wrote an event whose summary is no longer the one its feed
\* holds.
C18_Witness ==
    /\ IsMergeRun
    /\ pc = "done"
    /\ \E i \in 1..Len(outfile) :
          /\ outfile[i].name = "VEVENT"
          /\ outfile[i].summary # feeds[outfile[i].uid].summary
          /\ \E l \in 1..Len(log) :
                log[l].act = "fold" /\ event_key(log[l].ev) = event_key(outfile[i])

\* master_script's refresh dropped an old event from the pruned calendar
\* while the feed still holds it.
C18_FilterCase ==
    /\ IsMaster
    /\ pc = "merge"
    /\ \E l \in 1..Len(log) :
          /\ log[l].act = "old"
          /\ feeds[log[l].ev.uid] = log[l].ev

\* The stages of the workflow, in the order of the module's description.
Workflow == <<"force_sync", "refresh", "merge", "commit", "push">>

GitPushes == {k \in 1..Len(requests) : requests[k].method = "git push"}

\* The stages entered so far are the first stages of the workflow, in its
\* order, each once; a push was made iff the push stage was entered; nothing
\* is written before the force-sync succeeded, so a failed force-sync leaves
\* no calendar file; the merged file is written after the refresh; when the
\* commit reports nothing to commit the run has returned without a push.
C19_StagesInOrder ==
    IsMaster =>
       /\ Len(steps) <= Len(Workflow)
       /\ steps = SubSeq(Workflow, 1, Len(steps))
       /\ Cardinality(GitPushes) <= 1
       /\ (GitPushes # {}) = (Len(steps) = 5)
       /\ pc = "start" => steps = <<>>
       /\ (pc = "exit_error" /\ Len(steps) = 1) => files = <<>> /\ nread = 0
       /\ (files # <<>> \/ nread > 0) => Len(steps) >= 1
       /\ CombinedPath \in DOMAIN files => Len(steps) >= 3
       /\ pc = "returned" => steps = SubSeq(Workflow, 1, 4) /\ GitPushes = {}
       /\ pc = "done" => Len(steps) = 5

\* A run that returned or exited does nothing more.
C19_EndIsFinal == pc \in {"returned", "exit_error", "raised", "done"} => vars' = vars

\* C19: the master workflow runs force-sync, refresh, merge, commit, push in
\* that order, with at most one commit and one push, no push when there is
\* nothing to commit, and no calendar file after a failed force-sync.
C19_WorkflowOrder ==
    /\ []C19_StagesInOrder
    /\ [][C19_EndIsFinal]_vars

\* A complete run: feeds refreshed to files, merged file written, pushed.
C19_Witness ==
    /\ IsMaster
    /\ pc = "done"
    /\ steps = Workflow
    /\ Cardinality(DOMAIN files) >= 2
    /\ requests # <<>>

\* The commit reported nothing to commit.
C19_NothingToCommit == IsMaster /\ pc = "returned"

\* The force-sync failed.
C19_ForceSyncFailed == IsMaster /\ pc = "exit_error" /\ steps = <<"force_sync">>

\* ------------------------------------------- one source listed once or twice
\* The summaries of the events of one timing: empty, plain, with a leading
\* or trailing blank, ending in a comma, a comma, and two that hold the
\* separator.
RepeatTexts ==
    { <<>>, <<"x">>, <<"y">>, <<" ", "x">>, <<"x", " ">>, <<"x", ",">>, <<",">>,
      <<"x", ",", " ", "x">>, <<"x", ",", " ", "y">> }

RepeatInit ==
    /\ variant \in {"merge_calendars", "master_script"}
    /\ sources \in {<<PlainSource>>, <<PlainSource, PlainSource>>}
    /\ limit = MaxComponents
    /\ MergeStart

RepeatNext ==
    \/ FetchOk
    \/ \E t \in RepeatTexts : InsertEvent(Candidate(t))
    \/ \E t \in RepeatTexts : FoldEvent(Candidate(t))
    \/ EndWalk
    \/ WriteOutput

SpecRepeat == RepeatInit /\ [][RepeatNext]_vars

\* The step folds a duplicate (the entry the step adds to the history).
Arrived == log'[Len(log')]
IsArrival == Len(log') = Len(log) + 1 /\ Arrived.act = "fold"

\* The summary of the arriving duplicate was contributed to its key before.
AlreadyContributed ==
    \E m \in 1..Len(log) :
       /\ Contributed(m)
       /\ event_key(log[m].ev) = event_key(Arrived.ev)
       /\ log[m].ev.summary = Arrived.ev.summary

Recognised(t) ==
    /\ ~ContainsSeparator(t)
    /\ IsMergeCalendars \/ (t # <<>> /\ Strip(t) = t)

NestedComponents ==
    { Holding(VTimezone, "STANDARD"),
      Holding(VEvent(HourStart, HourEnd, NoDuration, <<"x">>), "VALARM"),
      Holding(VEvent(Date(10), Date(15), NoDuration, <<"x">>), "VALARM"),
      VTimezone,
      VEvent(HourStart, HourEnd, NoDuration, <<"x">>) }

NestedInit ==
    /\ variant \in {"merge_calendars", "master_script"}
    /\ sources \in {<<PlainSource>>, <<PlainSource, PlainSource>>}
    /\ limit = MaxComponents
    /\ MergeStart

NestedNext ==
    \/ FetchOk
    \/ \E c \in NestedComponents : PassThrough(c)
    \/ PassNested
    \/ \E c \in NestedComponents : DropOverlong(c)
    \/ \E c \in NestedComponents : FoldEvent(c)
    \/ \E c \in NestedComponents : InsertEvent(c)
    \/ EndWalk
    \/ WriteOutput

SpecNested == NestedInit /\ [][NestedNext]_vars

\* The events that were inserted.
Survivors == {log[l].ev.uid : l \in {m \in 1..Len(log) : log[m].act = "insert"}}

\* C21: every component at the top level of the merged output is a surviving
\* event or a top-level non-event component of a feed, each once: no nested
\* sub-component stands there by itself, and nothing of a dropped or folded
\* event.
C21_OnlyTopLevelComponents ==
    /\ \A i \in 1..Len(merged) :
          /\ merged[i].owner = 0
          /\ merged[i].name = "VEVENT" => merged[i].uid \in Survivors
          /\ merged[i].name # "VEVENT" => feeds[merged[i].uid] = merged[i]
    /\ \A i, j \in 1..Len(merged) : merged[i].uid = merged[j].uid => i = j
    /\ pc = "done" => outfile = merged

\* The run has ended: finished, returned, exited or left by an exception.
Ended == pc \in {"done", "returned", "exit_error", "raised"}

FILE == <<"calendar_sources.json">>

\* The content of a file that is no JSON: no list of entries.
Unreadable ==
    <<[keys |-> {}, Name |-> <<>>, URL |-> <<>>, Prefix |-> <<>>, Enabled |-> FALSE]>>

\* load_data: the list in the file; [] when there is no file or it cannot
\* be read.
load_data(fs) ==
    IF FILE \in DOMAIN fs /\ fs[FILE] # Unreadable THEN fs[FILE] ELSE <<>>

\* save_data(data): the file holds the list.
save_data(data) == (FILE :> data) @@ files

\* The entries add_entry can build: Name, URL and Prefix are not blank.
EditorEntries == {src \in SourceUniverse : src.Name \in {<<"a">>, <<"c">>}}

\* What the editor does not use.
editorIdle == <<limit, nread, stderr, mergeVars, now, cleaned, publishVars, feeds>>

\* main: data = load_data(); the main menu is shown. si is the number
\* chosen in edit_entry, 0 when none is.
EditorInit ==
    /\ variant = "interact_json_make"
    /\ files \in {<<>>, (FILE :> Unreadable)}
                 \cup {(FILE :> l) : l \in UNION {[1..n -> EditorEntries] : n \in 0..MaxSources}}
    /\ sources = load_data(files)
    /\ si = 0
    /\ pc = "menu"
    /\ limit = 0
    /\ nread = 0
    /\ stderr = <<>>
    /\ merged = <<>>
    /\ seen = <<>>
    /\ log = <<>>
    /\ outfile = Unwritten
    /\ feeds = <<>>
    /\ now = 0
    /\ cleaned = <<>>
    /\ PublishIdle

\* selection "1": add_entry(data)
AddEntry(entry) ==
    /\ pc = "menu"
    /\ Len(sources) < MaxSources
    /\ sources' = Append(sources, entry)
    /\ UNCHANGED <<variant, si, pc, files, editorIdle>>

\* selection "2": edit_entry(data), a number of the list chosen
SelectEntry(choice) ==
    /\ pc = "menu"
    /\ choice \in 1..Len(sources)
    /\ si' = choice
    /\ pc' = "editing"
    /\ UNCHANGED <<variant, sources, files, editorIdle>>

\* sub "1": entry["Enabled"] = not entry["Enabled"]
ToggleEntry ==
    /\ pc = "editing"
    /\ sources' = [sources EXCEPT ![si].Enabled = ~@]
    /\ UNCHANGED <<variant, si, pc, files, editorIdle>>

\* sub "2": del data[choice - 1]; break
DeleteEntry ==
    /\ pc = "editing"
    /\ sources' = SubSeq(sources, 1, si - 1) \o SubSeq(sources, si + 1, Len(sources))
    /\ si' = 0
    /\ pc' = "menu"
    /\ UNCHANGED <<variant, files, editorIdle>>

\* sub "3": break
LeaveEntry ==
    /\ pc = "editing"
    /\ si' = 0
    /\ pc' = "menu"
    /\ UNCHANGED <<variant, sources, files, editorIdle>>

\* selection "3": save_data(data); sys.exit(0)
ExitSave ==
    /\ pc = "menu"
    /\ files' = save_data(sources)
    /\ pc' = "done"
    /\ UNCHANGED <<variant, sources, si, editorIdle>>

\* KeyboardInterrupt at a prompt: save_data(load_data())
Interrupted ==
    /\ pc \in {"menu", "editing"}
    /\ files' = save_data(load_data(files))
    /\ pc' = "interrupted"
    /\ UNCHANGED <<variant, sources, si, editorIdle>>

EditorNext ==
    \/ \E entry \in EditorEntries : AddEntry(entry)
    \/ \E choice \in 1..MaxSources : SelectEntry(choice)
    \/ ToggleEntry
    \/ DeleteEntry
    \/ LeaveEntry
    \/ ExitSave
    \/ Interrupted

SpecEditor == EditorInit /\ [][EditorNext]_vars

\* C23: when the session has ended, through Exit or through an interrupt,
\* the JSON file holds the entries that were in memory.
C23_MemoryIsStored ==
    pc \in {"done", "interrupted"} =>
       /\ FILE \in DOMAIN files
       /\ files[FILE] = sources

====
